---------------------------- MODULE Spec2Model ----------------------------
(***************************************************************************)
(* A model of HexMctsBranching.cpp: the Hex board (GameState), the search  *)
(* tree node (MCTSNode) and the search controller (MCTS).                  *)
(*                                                                         *)
(* The board of the source is 11 x 11.  The model keeps every rule of the  *)
(* source and states the side length as BoardSize, so that the rules can   *)
(* be explored exhaustively on small boards; every literal 10, 11 or 121   *)
(* of the source is written BoardSize - 1, BoardSize or                    *)
(* BoardSize * BoardSize.                                                  *)
(*                                                                         *)
(* A float of the source is a fixed-point integer in units of 1 / Scale;   *)
(* a product or quotient is rounded to the nearest unit.                   *)
(***************************************************************************)
EXTENDS Integers, Sequences, FiniteSets, TLC

\* ----------------------------------------------------------------- bounds
\* Side length of the board (11 in the source).
BoardSize == 3
\* Calls of plays explored by SpecBoard.
MaxCalls == 6
\* Longest history replayed by recoverState is 2 * MaxTurns + 1 moves.
MaxTurns == 1
\* Playouts of one batch of getNextMove (50 in the source).
BatchSize == 1
\* Playouts explored in one behaviour of SpecCtl.
MaxPlayouts == 3
\* Calls of updateWithMove explored in one behaviour of SpecCtl.
MaxCommits == 1
\* Depth of the trees built by SpecTree, and backpropagations applied to them.
MaxDepth == 2
MaxUpdates == 2
\* Visit counts tried by SpecEval.
MaxProbe == 4
\* Calls of update explored by SpecUpdate.
MaxSame == 4
\* The rollout forks where the low ForkBits bits of counter are 0 (5 in the
\* source: every 32 turns).
ForkBits == 2
\* The rollout checks for a winner at every turn while counter is at most
\* DenseWindow (10 in the source), and after that where the low TermBits
\* bits of counter are 0 (4 in the source: every 16 turns).
DenseWindow == 1
TermBits == 1

\* ------------------------------------------------------ program constants
MarginPlies3 == 4
MarginPlies2 == 8
MarginPlies1 == 12
\* The side of the board of the source.
SourceSide == 11
TimeLimit == 1000
StopPercent == 87

\* The mask of the termination test, (counter & termDiv) == 0 (15 in the
\* source).
termDiv == 2 ^ TermBits - 1

\* The mask of the fork test, (counter & diviser) == 0 (31 in the source).
diviser == 2 ^ ForkBits - 1

\* One unit of a float is 1 / Scale.
Scale == 10 ^ 4

VARIABLES
    state,      \* a GameState: [board, totalPieces]; in SpecCtl, MCTS::_state
    ret,        \* the value returned by the last call of plays
    nCalls,     \* calls of plays made so far on this GameState
    clean,      \* every call so far was in range and on an empty cell
    history,    \* recoverState: the moves of the input, in replay order
    hidx,       \* recoverState: moves replayed so far
    applied,    \* recoverState: what plays returned for each replayed move
    rpc,        \* recoverState: "idle" (not called), "replay", "returned"
    tree,       \* the nodes owned by MCTS::_root, keyed by the path from the root
    pc,         \* MCTS: "idle", or "batch" inside the loop of getNextMove
    timeLim,    \* getNextMove: _timeLimit * timeMultiplier
    batchI,     \* getNextMove: playouts done in the current batch
    rolloutCounter, \* MCTS::_rolloutCounter
    playouts,   \* playouts run so far in this behaviour
    commits,    \* calls of updateWithMove so far in this behaviour
    legal,      \* every action committed so far was in range and on an empty cell
    lastOp      \* the operation the last step performed, with what it did

boardVars == <<ret, nCalls, clean>>
recVars == <<history, hidx, applied, rpc>>
ctlVars == <<pc, timeLim, batchI, rolloutCounter, playouts,
             commits, legal>>
vars == <<state, ret, nCalls, clean, history, hidx, applied, rpc, tree, pc,
          timeLim, batchI, rolloutCounter, playouts, commits,
          legal, lastOp>>

\* ------------------------------------------------------------- GameState
Coord == 0 .. (BoardSize - 1)
Cells == Coord \X Coord
\* Arguments offered to plays: every cell, and pairs with a row or a column
\* just below or just above the grid.
OutOfGrid ==
    {<<0 - 1, 0 - 1>>, <<0 - 1, 0>>, <<0, 0 - 1>>,
     <<BoardSize, 0>>, <<0, BoardSize>>, <<BoardSize, BoardSize>>}
Actions == Cells \cup OutOfGrid

NewGameState == [board |-> [c \in Cells |-> 0], totalPieces |-> 0]

boardIsFull(s) == s.totalPieces = BoardSize * BoardSize

redPlaysNext(s) == s.totalPieces % 2 = 0

redPlayedLast(s) == ~redPlaysNext(s)

InGrid(a) == a[1] >= 0 /\ a[1] < BoardSize /\ a[2] >= 0 /\ a[2] < BoardSize

\* A faulty variant of plays: the upper range check is off by one.
plays_loose(s, a) ==
    IF a[1] >= 0 /\ a[1] <= BoardSize /\ a[2] >= 0 /\ a[2] <= BoardSize
    THEN [ok |-> TRUE,
          st |-> [board |-> [c \in Cells |->
                               IF c = a THEN (IF s.totalPieces % 2 = 0 THEN 1 ELSE 0 - 1)
                               ELSE s.board[c]],
                  totalPieces |-> s.totalPieces + 1]]
    ELSE [ok |-> FALSE, st |-> s]

\* A faulty variant of plays: the mover is read after the count was advanced.
plays_late(s, a) ==
    IF InGrid(a)
    THEN [ok |-> TRUE,
          st |-> [board |-> [s.board EXCEPT
                               ![a] = IF (s.totalPieces + 1) % 2 = 0 THEN 1 ELSE 0 - 1],
                  totalPieces |-> s.totalPieces + 1]]
    ELSE [ok |-> FALSE, st |-> s]

\* GameState::plays(action2D): the returned flag and the GameState afterwards.
plays(s, a) ==
    IF a[1] >= 0 /\ a[1] < BoardSize /\ a[2] >= 0 /\ a[2] < BoardSize
    THEN [ok |-> TRUE,
          st |-> [board |-> [s.board EXCEPT
                               ![a] = IF s.totalPieces % 2 = 0 THEN 1 ELSE 0 - 1],
                  totalPieces |-> s.totalPieces + 1]]
    ELSE [ok |-> FALSE, st |-> s]

\* GameState::plays(int)
playsInt(s, action) ==
    IF action >= 0 /\ action < BoardSize * BoardSize
    THEN plays(s, <<action \div BoardSize, action % BoardSize>>)
    ELSE [ok |-> FALSE, st |-> s]

\* The cells in the order of the source's nested loops (i outer, j inner).
RowMajor == [k \in 1 .. (BoardSize * BoardSize) |->
               <<(k - 1) \div BoardSize, (k - 1) % BoardSize>>]

IndexOf(seq, e) ==
    IF \E i \in 1 .. Len(seq) : seq[i] = e
    THEN CHOOSE i \in 1 .. Len(seq) : seq[i] = e /\ \A j \in 1 .. (i - 1) : seq[j] # e
    ELSE 0

EraseAt(seq, i) == SubSeq(seq, 1, i - 1) \o SubSeq(seq, i + 1, Len(seq))

\* One "if (guard) { find tmp; push_back; erase }" block of findLinkedNodes.
LinkStep(acc, guard, tmp) ==
    IF guard /\ IndexOf(acc.pieceList, tmp) # 0
    THEN [result |-> Append(acc.result, tmp),
          pieceList |-> EraseAt(acc.pieceList, IndexOf(acc.pieceList, tmp))]
    ELSE acc

\* A faulty variant of findLinkedNodes: the fourth neighbour is (row - 1, col - 1).
findLinkedNodes_square(action, pieceList) ==
    LET col == action[2]
        row == action[1]
        a0 == [result |-> <<>>, pieceList |-> pieceList]
        a1 == LinkStep(a0, col > 0, <<row, col - 1>>)
        a2 == LinkStep(a1, col < BoardSize - 1, <<row, col + 1>>)
        a3 == LinkStep(a2, row > 0, <<row - 1, col>>)
        a4 == LinkStep(a3, row > 0 /\ col > 0, <<row - 1, col - 1>>)
        a5 == LinkStep(a4, row < BoardSize - 1, <<row + 1, col>>)
    IN  LinkStep(a5, row < BoardSize - 1 /\ col > 0, <<row + 1, col - 1>>)

\* findLinkedNodes: the linked stones found, and pieceList without them.
findLinkedNodes(action, pieceList) ==
    LET col == action[2]
        row == action[1]
        a0 == [result |-> <<>>, pieceList |-> pieceList]
        a1 == LinkStep(a0, col > 0, <<row, col - 1>>)
        a2 == LinkStep(a1, col < BoardSize - 1, <<row, col + 1>>)
        a3 == LinkStep(a2, row > 0, <<row - 1, col>>)
        a4 == LinkStep(a3, row > 0 /\ col < BoardSize - 1, <<row - 1, col + 1>>)
        a5 == LinkStep(a4, row < BoardSize - 1, <<row + 1, col>>)
    IN  LinkStep(a5, row < BoardSize - 1 /\ col > 0, <<row + 1, col - 1>>)

RECURSIVE dfs(_, _, _)
dfs(frontier, pieceList, isRed) ==
    IF Len(frontier) = 0
    THEN FALSE
    ELSE LET node == frontier[Len(frontier)]
             rest == SubSeq(frontier, 1, Len(frontier) - 1)
         IN  IF isRed /\ node[1] = BoardSize - 1
             THEN TRUE
             ELSE IF ~isRed /\ node[2] = BoardSize - 1
             THEN TRUE
             ELSE LET linked == findLinkedNodes(node, pieceList)
                  IN  dfs(rest \o linked.result, linked.pieceList, isRed)

\* GameState::oneSideTest
oneSideTest(s, isRed) ==
    LET mark == IF isRed THEN 1 ELSE 0 - 1
        pieceLocs == SelectSeq(RowMajor, LAMBDA c : s.board[c] = mark)
        isStart(c) == (isRed /\ c[1] = 0) \/ (~isRed /\ c[2] = 0)
        startingLocs == SelectSeq(pieceLocs, isStart)
        pieceList == SelectSeq(pieceLocs, LAMBDA c : ~isStart(c))
    IN  IF Len(pieceLocs) < BoardSize
        THEN FALSE
        ELSE IF Len(startingLocs) = 0
        THEN FALSE
        ELSE dfs(startingLocs, pieceList, isRed)

\* GameState::checkTermination: 1 red has won, -1 black has won, 0 neither.
checkTermination(s) ==
    IF oneSideTest(s, TRUE) THEN 1
    ELSE IF oneSideTest(s, FALSE) THEN 0 - 1
    ELSE 0

lastPlayerWon(s) == oneSideTest(s, redPlayedLast(s))

Max(a, b) == IF a >= b THEN a ELSE b
Min(a, b) == IF a <= b THEN a ELSE b

\* computeRangeBound: <<left_bound, right_bound, up_bound, bot_bound>>
computeRangeBound(action, hexRange) ==
    <<Max(0, action[1] - hexRange), Min(BoardSize - 1, action[1] + hexRange),
      Max(0, action[2] - hexRange), Min(BoardSize - 1, action[2] + hexRange)>>

\* The cells of a centred square of margin range, less one: the most pieces
\* for which that square is sure to hold an empty cell (-1 if there is no
\* such square).  On the 11 x 11 board of the source these are 24, 48 and 80,
\* above the source's 4, 8 and 12, so there the caps below change nothing.
RoomOn(range, side) ==
    IF side > 2 * range
    THEN (side - 2 * range) * (side - 2 * range) - 1
    ELSE 0 - 1

Room(range) == RoomOn(range, BoardSize)

\* The border ignored by outputActionPrior on a board of the given side, by
\* the number of pieces played.
borderRangeOn(totalPieces, side) ==
    IF totalPieces <= Min(MarginPlies3, RoomOn(3, side)) THEN 3
    ELSE IF totalPieces <= Min(MarginPlies2, RoomOn(2, side)) THEN 2
    ELSE IF totalPieces <= Min(MarginPlies1, RoomOn(1, side)) THEN 1
    ELSE 0

\* The border ignored by outputActionPrior on the board of the model.
borderRange(totalPieces) == borderRangeOn(totalPieces, BoardSize)

\* The weight outputActionPrior gives to one action, in units of 1 / Scale.
\* The source reads board[i][j] with i over the bounds of actionY and j over
\* the bounds of actionX.
heuristicMultiplier(s, action) ==
    LET rb == computeRangeBound(action, 1)
        l1 == rb[1]
        r1 == rb[2]
        u1 == rb[3]
        b1 == rb[4]
        block == (u1 .. b1) \X (l1 .. r1)
        redPiece == Cardinality({c \in block : s.board[c] = 1})
        blackPiece == Cardinality({c \in block : s.board[c] = 0 - 1})
        m0 == Scale
        m1 == IF (redPiece >= 1 /\ blackPiece > 1) \/ (redPiece > 1 /\ blackPiece >= 1)
              THEN m0 * 2 ELSE m0
        m2 == IF redPiece + blackPiece >= 4 THEN m1 * 2 ELSE m1
    IN  IF action[1] >= 2 /\ action[1] <= BoardSize - 2
           /\ action[2] >= 2 /\ action[2] <= BoardSize - 2
        THEN (m2 * 3) \div 2
        ELSE m2

\* A faulty variant of outputActionPrior: occupied cells are candidates too.
outputActionPrior_occupied(s, forcedFirst, forcedPlay) ==
    LET range == borderRange(s.totalPieces)
        inside(c) == /\ c[1] >= range /\ c[1] < BoardSize - range
                     /\ c[2] >= range /\ c[2] < BoardSize - range
        actions == IF s.totalPieces = 0 /\ forcedFirst
                   THEN <<forcedPlay>>
                   ELSE SelectSeq(RowMajor, inside)
    IN  [k \in 1 .. Len(actions) |->
            [action |-> actions[k], probability |-> heuristicMultiplier(s, actions[k])]]

\* GameState::outputActionPrior: the vector of ActionPrior it returns.
outputActionPrior(s, forcedFirst, forcedPlay) ==
    LET range == borderRange(s.totalPieces)
        inside(c) == /\ c[1] >= range /\ c[1] < BoardSize - range
                     /\ c[2] >= range /\ c[2] < BoardSize - range
        actions == IF s.totalPieces = 0 /\ forcedFirst
                   THEN <<forcedPlay>>
                   ELSE SelectSeq(RowMajor, LAMBDA c : inside(c) /\ s.board[c] = 0)
    IN  [k \in 1 .. Len(actions) |->
            [action |-> actions[k], probability |-> heuristicMultiplier(s, actions[k])]]

\* The default arguments of outputActionPrior.
defaultForcedPlay == <<1, 2>>

\* --------------------------------------------------------------- floats
\* a / b rounded to the nearest integer, for b > 0.
RoundDiv(a, b) == (2 * a + b) \div (2 * b)

\* The product of two floats.
FMul(a, b) == RoundDiv(a * b, Scale)

\* What a float holds after sqrt of a negative number or 0 / 0.
NaN == 0 - 2 ^ 30

\* sqrt(2 * log(n)) for n = 1 .. 64, in units of 1 / 10^4.
SqrtTwoLogTable ==
    <<0, 11774, 14823, 16651, 17941, 18930, 19728, 20393, 20963, 21460, 21899,
      22293, 22649, 22974, 23273, 23548, 23804, 24043, 24267, 24477, 24676,
      24864, 25042, 25211, 25373, 25527, 25674, 25816, 25951, 26081, 26207,
      26328, 26444, 26557, 26666, 26771, 26873, 26973, 27069, 27162, 27253,
      27341, 27427, 27511, 27592, 27672, 27749, 27825, 27899, 27971, 28042,
      28111, 28179, 28245, 28310, 28374, 28436, 28497, 28557, 28616, 28674,
      28730, 28786, 28841>>

\* sqrt(2 * log(n)): NaN for n = 0 (log is -inf), 0 for n = 1.
sqrtTwoLog(n) == IF n = 0 THEN NaN ELSE SqrtTwoLogTable[n]

\* pow(0.995, n) for n = 0 .. 127, in units of 1 / 10^4.
Pow995Table ==
    <<10000, 9950, 9900, 9851, 9801, 9752, 9704, 9655, 9607, 9559, 9511,
      9464, 9416, 9369, 9322, 9276, 9229, 9183, 9137, 9092, 9046, 9001, 8956,
      8911, 8867, 8822, 8778, 8734, 8691, 8647, 8604, 8561, 8518, 8475, 8433,
      8391, 8349, 8307, 8266, 8224, 8183, 8142, 8102, 8061, 8021, 7981, 7941,
      7901, 7862, 7822, 7783, 7744, 7705, 7667, 7629, 7590, 7553, 7515, 7477,
      7440, 7403, 7366, 7329, 7292, 7256, 7219, 7183, 7147, 7112, 7076, 7041,
      7005, 6970, 6936, 6901, 6866, 6832, 6798, 6764, 6730, 6696, 6663, 6630,
      6597, 6564, 6531, 6498, 6466, 6433, 6401, 6369, 6337, 6306, 6274, 6243,
      6211, 6180, 6149, 6119, 6088, 6058, 6027, 5997, 5967, 5937, 5908, 5878,
      5849, 5820, 5790, 5762, 5733, 5704, 5676, 5647, 5619, 5591, 5563, 5535,
      5507, 5480, 5452, 5425, 5398, 5371, 5344, 5318, 5291>>

\* pow(0.995, counter)
pow995(counter) == Pow995Table[counter + 1]

\* ------------------------------------------------------------- MCTSNode
\* A node is known by the path of actions from the root to it; a pointer to a
\* node is the set holding its path, and nullptr is the empty set.
nullptr == {}
PtrTo(p) == {p}
Deref(ptr) == CHOOSE p \in ptr : TRUE

\* MCTSNode::MCTSNode
NewNode(parent, heuristic, isRed) ==
    [parent |-> parent, nVisits |-> 0, quality |-> 0, uct |-> 0,
     heuristicFactor |-> heuristic, isRed |-> isRed]

\* The keys of the _children map of the node at p.
getChildren(t, p) ==
    {q[Len(q)] : q \in {q \in DOMAIN t : Len(q) = Len(p) + 1 /\ SubSeq(q, 1, Len(p)) = p}}

isLeaf(t, p) == getChildren(t, p) = {}

isRoot(t, p) == t[p].parent = nullptr

\* The weight a new child for action a gets from apPairs: operator[] of the
\* first branch keeps the last pair of an action, insert keeps the first.
PriorFor(apPairs, a, keepLast) ==
    LET idx == {k \in 1 .. Len(apPairs) : apPairs[k].action = a}
        k == IF keepLast
             THEN CHOOSE i \in idx : \A j \in idx : j <= i
             ELSE CHOOSE i \in idx : \A j \in idx : j >= i
    IN  apPairs[k].probability

\* A faulty variant of expand: the children are built with a null parent.
expand_orphan(t, p, apPairs) ==
    LET had == getChildren(t, p)
        new == {apPairs[k].action : k \in 1 .. Len(apPairs)} \ had
    IN  [q \in DOMAIN t \cup {Append(p, a) : a \in new} |->
            IF q \in DOMAIN t THEN t[q]
            ELSE NewNode(nullptr, PriorFor(apPairs, q[Len(q)], had = {}), ~t[p].isRed)]

\* MCTSNode::expand on the node at p.
expand(t, p, apPairs) ==
    LET had == getChildren(t, p)
        new == {apPairs[k].action : k \in 1 .. Len(apPairs)} \ had
    IN  [q \in DOMAIN t \cup {Append(p, a) : a \in new} |->
            IF q \in DOMAIN t THEN t[q]
            ELSE NewNode(PtrTo(p), PriorFor(apPairs, q[Len(q)], had = {}), ~t[p].isRed)]

\* A faulty variant of evaluation: the exploration term is multiplied by 1 + _nVisits.
evaluation_times(t, p, xplorCoeff) ==
    LET visits == t[Deref(t[p].parent)].nVisits
        uct == IF visits = 0 THEN NaN
               ELSE RoundDiv(FMul(t[p].heuristicFactor, xplorCoeff) * sqrtTwoLog(visits)
                                 * (1 + t[p].nVisits), Scale)
    IN  [uct |-> uct, value |-> IF uct = NaN THEN NaN ELSE t[p].quality + uct]

\* MCTSNode::evaluation on the node at p: the _uct it stores and the value it
\* returns.
evaluation(t, p, xplorCoeff) ==
    LET visits == t[Deref(t[p].parent)].nVisits
        uct == IF visits = 0 THEN NaN
               ELSE RoundDiv(FMul(t[p].heuristicFactor, xplorCoeff) * sqrtTwoLog(visits),
                             Scale * (1 + t[p].nVisits))
    IN  [uct |-> uct, value |-> IF uct = NaN THEN NaN ELSE t[p].quality + uct]

\* std::max_element over the children: the first greatest element in the
\* iteration order of the unordered_map, which the model does not fix, so any
\* greatest element; with the comparison always false (NaN), the first
\* element, so any element.  key gives each child the value compared.
MaxElements(kids, key) ==
    IF \E a \in kids : key[a] = NaN
    THEN kids
    ELSE {a \in kids : \A b \in kids : key[b] <= key[a]}

\* A faulty variant of select: the final choice is by evaluation too.
select_scored(t, p, xplorCoeff, isPlayout) ==
    LET kids == getChildren(t, p)
    IN  IF kids = {} THEN {}
        ELSE MaxElements(kids, [a \in kids |-> evaluation(t, Append(p, a), xplorCoeff).value])

\* MCTSNode::select on the node at p: the keys the returned iterator may point
\* at; the empty set stands for _children.end().
select(t, p, xplorCoeff, isPlayout) ==
    LET kids == getChildren(t, p)
    IN  IF kids = {} THEN {}
        ELSE IF isPlayout
        THEN MaxElements(kids, [a \in kids |-> evaluation(t, Append(p, a), xplorCoeff).value])
        ELSE MaxElements(kids, [a \in kids |-> t[Append(p, a)].nVisits])

\* The _uct fields after select in playout mode: with two or more children,
\* each is compared at least once, and a comparison evaluates both sides.
selectStoresUct(t, p, xplorCoeff) ==
    LET kids == getChildren(t, p)
    IN  IF Cardinality(kids) < 2 THEN t
        ELSE [q \in DOMAIN t |->
                IF Len(q) = Len(p) + 1 /\ SubSeq(q, 1, Len(p)) = p
                THEN [t[q] EXCEPT !.uct = evaluation(t, q, xplorCoeff).uct]
                ELSE t[q]]

\* A faulty variant of update: the mean is taken over one visit more.
update_late(node, result) ==
    [node EXCEPT !.nVisits = node.nVisits + 1,
                 !.quality = node.quality + RoundDiv(result - node.quality, node.nVisits + 2)]

\* MCTSNode::update on one node.
update(node, result) ==
    [node EXCEPT !.nVisits = node.nVisits + 1,
                 !.quality = node.quality + RoundDiv(result - node.quality, node.nVisits + 1)]

\* A faulty variant of toParent: the sign is kept.
toParent_sameSign(result) == RoundDiv(result * 95, 100)

\* What update_from_root hands its parent: -result * 0.95.
toParent(result) == RoundDiv((0 - result) * 95, 100)

\* The calls of update that update_from_root(result) on the node at p makes,
\* in the order it makes them: the parent's first, its own last.
RECURSIVE updateCalls(_, _, _)
updateCalls(t, p, result) ==
    (IF t[p].parent # nullptr
     THEN updateCalls(t, Deref(t[p].parent), toParent(result))
     ELSE <<>>) \o <<[node |-> p, result |-> result]>>

RECURSIVE ApplyUpdates(_, _, _)
ApplyUpdates(t, calls, k) ==
    IF k > Len(calls) THEN t
    ELSE ApplyUpdates([t EXCEPT ![calls[k].node] = update(t[calls[k].node], calls[k].result)],
                      calls, k + 1)

\* A faulty variant of update_from_root: the nodes above are left alone.
update_from_root_own(t, p, result) == [t EXCEPT ![p] = update(t[p], result)]

\* MCTSNode::update_from_root on the node at p: the tree afterwards.
update_from_root(t, p, result) == ApplyUpdates(t, updateCalls(t, p, result), 1)

\* ----------------------------------------------------------------- MCTS
\* _xplorCoeff, the default explorationCoeff of MCTS::MCTS (0.5).
xplorCoeff == Scale \div 2

\* A faulty variant of byValue: the callee works on the caller's object.
byReference(own, calleeFinal) == calleeFinal

\* A GameState handed over by value (the parameter of playout and of
\* branchingRollout, from the copies stateCopy): what the caller's object
\* holds once the callee, which left its own object as calleeFinal, is back.
byValue(own, calleeFinal) == own

\* std::max_element over action_prior[lo .. hi - 1] by probability: the index
\* of the first greatest element, 0 for an empty range (the end iterator).
maxPrior(aps, lo, hi) ==
    IF lo >= hi THEN 0
    ELSE CHOOSE k \in lo .. hi - 1 :
            /\ \A j \in lo .. hi - 1 : aps[j].probability <= aps[k].probability
            /\ \A j \in lo .. k - 1 : aps[j].probability < aps[k].probability

\* The result update_from_root gets in the first checks of a rollout:
\* end * 16 / (counter + 1) * (isRed ? 1 : -1).
earlyReward(end, counter, isRed) ==
    end * RoundDiv(16 * Scale, counter + 1) * (IF isRed THEN 1 ELSE 0 - 1)

\* end * (isRed ? 1 : -1) * pow(0.995, counter)
lateReward(end, counter, isRed) ==
    end * (IF isRed THEN 1 ELSE 0 - 1) * pow995(counter)

\* A faulty variant of rolloutIndicator: a forked line is never given back the right
\* to fork.
rolloutIndicator_kept(search_indicator) == search_indicator

\* search_indicator after a move of the rollout.
rolloutIndicator(search_indicator) == 0

\* One return of branchingRollout, one fork or one move, as the rollout goes
\* through them: kind is "early", "late" or "full" by the check that ended
\* the call, "ub" if max_element was dereferenced on an empty vector, "fork",
\* or "move" for a turn of the loop that reached state.plays(action); state
\* is the state of the call then (before the move), counter its counter.  line names the call:
\* <<>> is the call made by playout, and Append(l, c) the call forked by
\* the call l at counter c.
rolloutEvent(kind, s, counter, line) ==
    [kind |-> kind, state |-> s, counter |-> counter, line |-> line]

\* The call made by playout.
outerLine == <<>>

\* A faulty variant of rolloutCheck: the first check is made at every turn.
rolloutCheck_always(s, counter, end) ==
    IF boardIsFull(s) THEN "full"
    ELSE IF end # 0 THEN "early"
    ELSE "go"

\* The checks of a turn of the loop; end is checkTermination().
\* (counter & mask) == 0 holds when counter is a multiple of mask + 1.
rolloutCheck(s, counter, end) ==
    IF boardIsFull(s) THEN "full"
    ELSE IF counter <= DenseWindow /\ end # 0 THEN "early"
    ELSE IF counter % (termDiv + 1) = 0 /\ counter # 0 /\ end # 0 THEN "late"
    ELSE "go"

\* A faulty variant of rolloutChoice: search_indicator = 1 takes the first
\* half whatever the size of the vector.
rolloutChoice_half(action_prior, search_indicator) ==
    IF search_indicator = 0
    THEN maxPrior(action_prior, 1, Len(action_prior) + 1)
    ELSE IF search_indicator = 1
    THEN maxPrior(action_prior, 1, Len(action_prior) \div 2 + 1)
    ELSE maxPrior(action_prior, Len(action_prior) \div 2 + 1, Len(action_prior) + 1)

\* The choice of the action in the loop of branchingRollout: its index in
\* action_prior, 0 for the end iterator.
rolloutChoice(action_prior, search_indicator) ==
    IF search_indicator = 0
    THEN maxPrior(action_prior, 1, Len(action_prior) + 1)
    ELSE IF search_indicator = 1 /\ Len(action_prior) > 1
    THEN maxPrior(action_prior, 1, Len(action_prior) \div 2 + 1)
    ELSE maxPrior(action_prior, Len(action_prior) \div 2 + 1, Len(action_prior) + 1)

\* The state after the move of a turn; s itself if there is no action to take.
rolloutMove(s, action_prior, k) ==
    IF k = 0 THEN s ELSE plays(s, action_prior[k].action).st

rolloutNext(s, search_indicator, action_prior) ==
    rolloutMove(s, action_prior, rolloutChoice(action_prior, search_indicator))

RECURSIVE rolloutLine(_, _, _, _)

\* A turn of the loop from the call of outputActionPrior on; next is the
\* state after state.plays(action).
rolloutTurn(s, counter, search_indicator, next, line) ==
    IF next = s
    THEN <<rolloutEvent("ub", s, counter, line)>>
    ELSE <<rolloutEvent("move", s, counter, line)>>
             \o rolloutLine(next, counter + 1, rolloutIndicator(search_indicator), line)

\* A turn of the loop after the forked call, which ended with the state
\* inner, has returned; own is the state of the forking line, which goes on
\* with search_indicator = 1.
rolloutForked(s, counter, inner, own, line) ==
    <<[kind |-> "fork", state |-> s, counter |-> counter, inner |-> inner, after |-> own,
       line |-> line]>>
        \o rolloutTurn(own, counter, 1,
                       rolloutNext(own, 1, outputActionPrior(own, TRUE, defaultForcedPlay)),
                       line)

\* The fork: branchingRollout(startNode, stateCopy, counter, 2) gets a copy
\* of state and has gone through the events of inner.
rolloutFork(s, counter, inner, line) ==
    inner \o rolloutForked(s, counter, inner[Len(inner)].state,
                           byValue(s, inner[Len(inner)].state), line)

\* The returns and forks of branchingRollout(startNode, s, counter,
\* search_indicator), in the order they happen; the last is its own return.
rolloutLine(s, counter, search_indicator, line) ==
    IF rolloutCheck(s, counter, checkTermination(s)) # "go"
    THEN <<rolloutEvent(rolloutCheck(s, counter, checkTermination(s)), s, counter, line)>>
    ELSE IF search_indicator = 0 /\ counter % (diviser + 1) = 0
    THEN rolloutFork(s, counter, rolloutLine(s, counter, 2, Append(line, counter)), line)
    ELSE rolloutTurn(s, counter, search_indicator,
                     rolloutNext(s, search_indicator,
                                 outputActionPrior(s, TRUE, defaultForcedPlay)),
                     line)

\* What the return e does with its result end = checkTermination(): r holds
\* the tree, _rolloutCounter, the state of the call that returned last, the
\* forks so far (the forking line's state before the fork, its state after
\* the forked call came back, the state the forked call ended with), the
\* ends of the calls so far and ub.
rolloutReturn(r, startNode, e, end) ==
    IF e.kind = "early"
    THEN [r EXCEPT !.state = e.state,
                   !.tree = update_from_root(r.tree, startNode,
                                earlyReward(end, e.counter, r.tree[startNode].isRed))]
    ELSE IF end # 0
    THEN [r EXCEPT !.state = e.state,
                   !.rc = r.rc + 1,
                   !.tree = update_from_root(r.tree, startNode,
                                lateReward(end, e.counter, r.tree[startNode].isRed))]
    ELSE [r EXCEPT !.state = e.state]

\* r with the end e of a call added to its ends: the call, its counter,
\* the check that ended it, the value of checkTermination() there and the
\* state of the call.
rolloutEnded(r, e, end) ==
    [r EXCEPT !.ends = Append(r.ends, [line |-> e.line, counter |-> e.counter,
                                       kind |-> e.kind, end |-> end, state |-> e.state])]

rolloutApply(r, startNode, e) ==
    IF e.kind = "fork"
    THEN [r EXCEPT !.forks = Append(r.forks, [before |-> e.state, after |-> e.after,
                                              inner |-> e.inner, line |-> e.line,
                                              counter |-> e.counter])]
    ELSE IF e.kind = "ub"
    THEN rolloutEnded([r EXCEPT !.state = e.state, !.ub = TRUE], e, 0)
    ELSE rolloutReturn(rolloutEnded(r, e, checkTermination(e.state)), startNode, e,
                       checkTermination(e.state))

RECURSIVE rolloutFold(_, _, _, _)
rolloutFold(r, startNode, events, k) ==
    IF k > Len(events) THEN r
    ELSE rolloutFold(rolloutApply(r, startNode, events[k]), startNode, events, k + 1)

\* The turns of the loop that reached state.plays(action), in order.
rolloutTurns(events) == SelectSeq(events, LAMBDA e : e.kind = "move")

\* The returns and forks among the events, in order.
rolloutReturns(events) == SelectSeq(events, LAMBDA e : e.kind # "move")

\* What the rollout that went through events leaves behind.
rolloutOutcome(t, rc, startNode, s, events) ==
    rolloutFold([tree |-> t, rc |-> rc, state |-> s, forks |-> <<>>, ends |-> <<>>,
                 turns |-> rolloutTurns(events), ub |-> FALSE],
                startNode, rolloutReturns(events), 1)

\* MCTS::branchingRollout, called with the tree t and _rolloutCounter = rc.
branchingRollout(t, rc, startNode, s, counter, search_indicator) ==
    rolloutOutcome(t, rc, startNode, s,
                   rolloutLine(s, counter, search_indicator, outerLine))

\* The descent of MCTS::playout from the node at p with the copy s: the leaves
\* it can stop at, each with the tree (select stores _uct) and the copy there.
RECURSIVE descend(_, _, _)
descend(t, p, s) ==
    IF isLeaf(t, p)
    THEN {[tree |-> t, node |-> p, state |-> s]}
    ELSE UNION {descend(selectStoresUct(t, p, xplorCoeff), Append(p, a), plays(s, a).st) :
                    a \in select(t, p, xplorCoeff, TRUE)}

\* branchingRollout takes state_copy by value: own is what playout still
\* holds when the rollout r is over.
afterRollout(own, r) == [r EXCEPT !.state = byValue(own, r.state)]

\* MCTS::playout after the descent d: expand and roll out.
playoutFrom(d, rc) ==
    afterRollout(d.state,
                 branchingRollout(expand(d.tree, d.node,
                                         outputActionPrior(d.state, TRUE, defaultForcedPlay)),
                                  rc, d.node, d.state, 0, 0))

\* The node a moved-from parent pointer is left pointing at: the old root,
\* destroyed by the assignment to _root.
Destroyed == <<<<0 - 1, 0 - 1>>>>

\* _root = std::move(it->second): the subtree under action becomes the tree.
moveChild(t, action) ==
    LET under == {p \in DOMAIN t : Len(p) >= 1 /\ p[1] = action}
    IN  [q \in {Tail(p) : p \in under} |->
            LET n == t[<<action>> \o q]
            IN  [n EXCEPT !.parent = IF q = <<>> THEN PtrTo(Destroyed)
                                     ELSE PtrTo(Tail(Deref(n.parent)))]]

\* MCTSNode::setParentNull on the root.
setParentNull(t) == [t EXCEPT ![<<>>].parent = nullptr]

\* A faulty variant of freshRoot: the root is given the other side.
freshRoot_next(isRed) == (<<>> :> NewNode(nullptr, Scale, ~isRed))

\* The tree of a controller that holds a new root only.
freshRoot(isRed) == (<<>> :> NewNode(nullptr, Scale, isRed))

\* A faulty variant of rerooted: the tree is kept when the action is not a child
\* of the root.
rerooted_found(t, action, s) ==
    IF action \in getChildren(t, <<>>)
    THEN setParentNull(moveChild(t, action))
    ELSE t

\* A faulty variant of rerooted: the subtree found is thrown away as well.
rerooted_fresh(t, action, s) == freshRoot(redPlayedLast(s))

\* The tree after MCTS::updateWithMove(action); s is _state after plays.
rerooted(t, action, s) ==
    IF action \in getChildren(t, <<>>)
    THEN setParentNull(moveChild(t, action))
    ELSE freshRoot(redPlayedLast(s))

\* ------------------------------------------- SpecCtl: the MCTS controller
\* MCTS::MCTS, with the variables of the other specifications at rest.
InitCtl ==
    /\ tree = freshRoot(FALSE)
    /\ pc = "idle"
    /\ timeLim = 0
    /\ batchI = 0
    /\ rolloutCounter = 0
    /\ playouts = 0
    /\ commits = 0
    /\ legal = TRUE
    /\ lastOp = [op |-> "none"]

\* recoverState has not been called.
InitRecover ==
    /\ history = <<>>
    /\ hidx = 0
    /\ applied = <<>>
    /\ rpc = "idle"

InitMcts ==
    /\ state = NewGameState
    /\ ret = TRUE
    /\ nCalls = 0
    /\ clean = TRUE
    /\ InitRecover
    /\ InitCtl

\* The state after the first k moves of a line of play.
RECURSIVE PlayPrefix(_, _)
PlayPrefix(line, k) ==
    IF k = 0 THEN NewGameState ELSE plays(PlayPrefix(line, k - 1), line[k]).st

\* The lines of play main may have recovered before it calls setState: the
\* cells taken row by row, and from the last cell back to the first.
StartLines ==
    {RowMajor, [k \in 1 .. Len(RowMajor) |-> RowMajor[Len(RowMajor) + 1 - k]]}

\* The prefixes kept of a line: none of it, and all but its last 3, 2, 1, 0 moves.
StartLengths == {0} \cup (BoardSize * BoardSize - 3 .. BoardSize * BoardSize)

StartStates == {PlayPrefix(line, k) : line \in StartLines, k \in StartLengths}

\* The actions main may hand updateWithMove: a cell, or an action off the board.
CommitActions == Cells \cup {<<0 - 1, 0 - 1>>, <<BoardSize, 0>>}

\* The values of timeMultiplier: 0, the default 1.0, and the 1.9 of main.
Multipliers == {0, Scale, (19 * Scale) \div 10}

\* What getTimeInMilis() - startTime may read after a batch: no time, nine
\* tenths of _timeLimit, twice _timeLimit.
Readings == {0, (9 * TimeLimit) \div 10, 2 * TimeLimit}

\* A faulty variant of loopTest: the loop goes on up to the whole of timeLim.
loopTest_whole(time_passes, timeLim_) ==
    IF timeLim_ = 0 THEN FALSE ELSE time_passes < timeLim_

\* The test of the while loop of getNextMove,
\* ((1.0 * time_passes / timeLim) * 100) < 87, for time_passes >= 0 and
\* timeLim >= 0; with timeLim = 0 the quotient is NaN or infinite and the
\* test is false.
loopTest(time_passes, timeLim_) ==
    IF timeLim_ = 0 THEN FALSE ELSE time_passes * 100 < StopPercent * timeLim_

\* MCTS::setState(g), called by main once, before anything else.
SetState(g) ==
    /\ pc = "idle"
    /\ lastOp.op = "none"
    /\ state' = g
    /\ tree' = freshRoot(redPlayedLast(g))
    /\ lastOp' = [op |-> "setState"]
    /\ UNCHANGED <<boardVars, recVars, ctlVars>>

\* The end of getNextMove: the final select on the root of t; budget is
\* timeLim, which goes out of scope with the counters of the loop, and read
\* is the time_passes that ended the loop.
Return(t, budget, read) ==
    LET it == select(t, <<>>, xplorCoeff, FALSE)
    IN  /\ \E action \in (IF it = {} THEN {<<0, 0>>} ELSE it) :
              lastOp' = [op |-> "getNextMove", positive |-> budget > 0, action |-> action,
                         read |-> read]
        /\ pc' = "idle"
        /\ timeLim' = 0
        /\ batchI' = 0

\* The action the call of getNextMove that has just returned handed back.
nextMove == lastOp.action

\* MCTS::getNextMove up to its first batch: with time_passes = 0 the loop is
\* entered unless timeLim is 0 (0 / 0 is NaN, and NaN < 87 is false).
GetNextMoveBegin(timeMultiplier) ==
    /\ pc = "idle"
    /\ loopTest(0, (TimeLimit * timeMultiplier) \div Scale)
          => playouts + BatchSize <= MaxPlayouts
    /\ IF loopTest(0, (TimeLimit * timeMultiplier) \div Scale)
       THEN /\ pc' = "batch"
            /\ timeLim' = (TimeLimit * timeMultiplier) \div Scale
            /\ batchI' = 0
            /\ lastOp' = [op |-> "begin"]
       ELSE Return(tree, (TimeLimit * timeMultiplier) \div Scale, 0)
    /\ UNCHANGED <<state, boardVars, recVars, tree, rolloutCounter, playouts,
                   commits, legal>>

\* What a playout that stopped at node and came back with r leaves behind.
PlayoutDone(node, r) ==
    /\ tree' = r.tree
    /\ rolloutCounter' = r.rc
    /\ state' = byValue(state, r.state)
    /\ lastOp' = [op |-> "playout", node |-> node, ub |-> r.ub, forks |-> r.forks,
                  ends |-> r.ends, turns |-> r.turns]

\* One turn of the inner loop of getNextMove: a playout on a copy of _state.
Playout ==
    /\ pc = "batch"
    /\ batchI < BatchSize
    /\ \E d \in descend(tree, <<>>, state) : PlayoutDone(d.node, playoutFrom(d, rolloutCounter))
    /\ batchI' = batchI + 1
    /\ playouts' = playouts + 1
    /\ UNCHANGED <<boardVars, recVars, pc, timeLim, commits, legal>>

\* The end of a batch: time_passes is read and the loop goes on or ends.
ClockRead(time_passes) ==
    /\ pc = "batch"
    /\ batchI = BatchSize
    /\ loopTest(time_passes, timeLim) => playouts + BatchSize <= MaxPlayouts
    /\ IF loopTest(time_passes, timeLim)
       THEN /\ batchI' = 0
            /\ lastOp' = [op |-> "clock", read |-> time_passes]
            /\ UNCHANGED <<pc, timeLim>>
       ELSE Return(tree, timeLim, time_passes)
    /\ UNCHANGED <<state, boardVars, recVars, tree, rolloutCounter, playouts,
                   commits, legal>>

\* What MCTS::updateWithMove(action) does.
Committed(action) ==
    /\ LET r == plays(state, action)
       IN  /\ state' = r.st
           /\ tree' = rerooted(tree, action, r.st)
    /\ legal' = (legal /\ InGrid(action) /\ state.board[action] = 0)
    /\ commits' = commits + 1
    /\ lastOp' = [op |-> "updateWithMove", action |-> action,
                  kept |-> action \in getChildren(tree, <<>>)]
    /\ UNCHANGED <<boardVars, recVars, pc, timeLim, batchI, rolloutCounter, playouts>>

\* MCTS::updateWithMove(action), called between two calls of getNextMove.
UpdateWithMove(action) ==
    /\ pc = "idle"
    /\ commits < MaxCommits
    /\ Committed(action)

NextCtl ==
    \/ \E g \in StartStates : SetState(g)
    \/ \E m \in Multipliers : GetNextMoveBegin(m)
    \/ Playout
    \/ \E tp \in Readings : ClockRead(tp)
    \/ \E a \in CommitActions : UpdateWithMove(a)

SpecCtl == InitMcts /\ [][NextCtl]_vars

\* ------------------------------------------------- claims on the controller
\* The steps of getNextMove, by what the step did.
getNextMoveOps == {"begin", "playout", "clock", "getNextMove"}

\* C2: when every committed action was an in-range empty cell, the board is
\* not full and the budget is positive, the action getNextMove returns is in
\* range and its cell is empty on the authoritative board.
C2_ReturnsEmptyCell ==
    (lastOp.op = "getNextMove" /\ legal /\ ~boardIsFull(state) /\ lastOp.positive)
        => (InGrid(nextMove) /\ state.board[nextMove] = 0)

\* getNextMove has returned, after a commit, on a board that holds stones
\* and leaves the root two children or more.
C2_Witness ==
    /\ lastOp.op = "getNextMove" /\ legal /\ ~boardIsFull(state) /\ lastOp.positive
    /\ commits = 1
    /\ state.totalPieces >= 2
    /\ Cardinality(getChildren(tree, <<>>)) >= 2

\* C3: updateWithMove(action) makes the child under action the root, with its
\* visits, quality and whole subtree as they were and a null parent; without
\* such a child the root is a new node with no visits, no quality and no
\* children.  Nothing else of the old tree is left.
C3_Reroot ==
    [][\A a \in CommitActions : UpdateWithMove(a) =>
        IF a \in getChildren(tree, <<>>)
        THEN /\ DOMAIN tree' = {Tail(p) : p \in {q \in DOMAIN tree : Len(q) >= 1 /\ q[1] = a}}
             /\ tree'[<<>>].parent = nullptr
             /\ \A p \in DOMAIN tree' :
                   /\ tree'[p].nVisits = tree[<<a>> \o p].nVisits
                   /\ tree'[p].quality = tree[<<a>> \o p].quality
                   /\ tree'[p].heuristicFactor = tree[<<a>> \o p].heuristicFactor
                   /\ tree'[p].isRed = tree[<<a>> \o p].isRed
                   /\ p # <<>> => tree'[p].parent = PtrTo(SubSeq(p, 1, Len(p) - 1))
        ELSE /\ DOMAIN tree' = {<<>>}
             /\ tree'[<<>>].nVisits = 0
             /\ tree'[<<>>].quality = 0
             /\ tree'[<<>>].parent = nullptr
      ]_vars

\* updateWithMove has just made a visited child with children the root.
C3_Witness ==
    /\ lastOp.op = "updateWithMove" /\ lastOp.kept
    /\ tree[<<>>].nVisits >= 1
    /\ Cardinality(getChildren(tree, <<>>)) >= 2

\* C6: when the root has children, the action getNextMove returns is the key
\* of a child no other child has more visits than; when it has none, the
\* action is (0, 0).
C6_ReturnsMostVisited ==
    lastOp.op = "getNextMove" =>
        LET kids == getChildren(tree, <<>>)
        IN  IF kids # {}
            THEN /\ nextMove \in kids
                 /\ \A b \in kids : tree[<<b>>].nVisits <= tree[<<nextMove>>].nVisits
            ELSE nextMove = <<0, 0>>

\* getNextMove has returned a child while a child with fewer visits had the
\* greater evaluation.
C6_Witness ==
    /\ lastOp.op = "getNextMove"
    /\ nextMove \in getChildren(tree, <<>>)
    /\ \E c \in getChildren(tree, <<>>) :
          /\ tree[<<c>>].nVisits < tree[<<nextMove>>].nVisits
          /\ evaluation(tree, <<c>>, xplorCoeff).value
                 > evaluation(tree, <<nextMove>>, xplorCoeff).value

\* C9: no step of getNextMove changes _state, and a rollout that forks has
\* the same board after the forked call as before it.
C9_WorksOnCopies ==
    [][/\ lastOp'.op \in getNextMoveOps => state' = state
       /\ lastOp'.op = "playout" =>
             \A k \in DOMAIN lastOp'.forks : lastOp'.forks[k].after = lastOp'.forks[k].before
      ]_vars

\* A playout has run from a board with stones, and its rollout forked a line
\* that played moves on its own board.
C9_Witness ==
    /\ lastOp.op = "playout"
    /\ state.totalPieces >= 1
    /\ lastOp.forks # <<>>
    /\ lastOp.forks[1].inner.totalPieces > lastOp.forks[1].before.totalPieces
    /\ lastOp.forks[1].before.totalPieces > state.totalPieces

forkedAt(line) ==
    {lastOp.forks[k].counter : k \in {j \in DOMAIN lastOp.forks : lastOp.forks[j].line = line}}

\* The counters of the turns of a call that got as far as the fork test: from
\* its first counter to the one before its return (to the last one, if it
\* ended on an empty vector).
turnsOf(e) ==
    (IF e.line = outerLine THEN 0 ELSE e.line[Len(e.line)])
        .. (IF e.kind = "ub" THEN e.counter ELSE e.counter - 1)

\* C14 as stated: in a playout only the call made by playout forks, so the
\* calls are at most one more than the multiples of diviser + 1 that call
\* reaches.
C14_OnlyOuterForks ==
    lastOp.op = "playout" =>
        /\ \A k \in DOMAIN lastOp.forks : lastOp.forks[k].line = outerLine
        /\ \A k \in DOMAIN lastOp.ends :
              lastOp.ends[k].line = outerLine =>
                  Len(lastOp.ends) <= 1 + Cardinality({c \in 0 .. lastOp.ends[k].counter :
                                                         c % (diviser + 1) = 0})

\* C14 as amended: every call forks, the forked ones too; a call forks at
\* exactly the turns whose counter is a multiple of diviser + 1, but for the
\* turn at which a forked call was made, and the calls of a playout are one
\* more than the forks.
C14_EveryLineForks ==
    lastOp.op = "playout" =>
        /\ Len(lastOp.ends) = 1 + Len(lastOp.forks)
        /\ \A k \in DOMAIN lastOp.ends :
              LET e == lastOp.ends[k]
              IN  forkedAt(e.line) =
                      {c \in turnsOf(e) :
                          /\ c % (diviser + 1) = 0
                          /\ e.line # outerLine => c # e.line[Len(e.line)]}
        /\ \A k \in DOMAIN lastOp.forks :
              \E j \in DOMAIN lastOp.ends : lastOp.ends[j].line = lastOp.forks[k].line

\* A playout in which a forked call has forked in its turn.
C14_Witness ==
    /\ lastOp.op = "playout"
    /\ \E k \in DOMAIN lastOp.forks :
          /\ lastOp.forks[k].line # outerLine
          /\ lastOp.forks[k].counter > 0

\* The nodes update_from_root started at the node at p calls update on.
backpropNodes(t, p) ==
    LET calls == updateCalls(t, p, 0)
    IN  {calls[k].node : k \in DOMAIN calls}

\* C16: the root has a null parent, the parent of every other node is the
\* node whose _children holds it, and a backpropagation started at any node
\* goes through nodes of the tree only, up to the root.
C16_WellFormedTree ==
    /\ <<>> \in DOMAIN tree
    /\ tree[<<>>].parent = nullptr
    /\ \A p \in DOMAIN tree :
          /\ p # <<>> =>
                /\ SubSeq(p, 1, Len(p) - 1) \in DOMAIN tree
                /\ tree[p].parent = PtrTo(SubSeq(p, 1, Len(p) - 1))
          /\ backpropNodes(tree, p) \subseteq DOMAIN tree
          /\ <<>> \in backpropNodes(tree, p)
          /\ Cardinality(backpropNodes(tree, p)) = Len(p) + 1

\* updateWithMove has just made the root of a child that has children and
\* grandchildren.
C16_Witness ==
    /\ lastOp.op = "updateWithMove" /\ lastOp.kept
    /\ \E p \in DOMAIN tree : Len(p) = 2

\* C18: in a playout on a board built by in-range moves onto empty cells,
\* every call of branchingRollout that ends on a full board finds a winner
\* there, one side and not the other, no call ends without a result, and
\* each call's result is backpropagated through the node the playout
\* stopped at.
C18_FullBoardHasWinner ==
    [][(lastOp'.op = "playout" /\ legal) =>
          /\ ~lastOp'.ub
          /\ \A k \in DOMAIN lastOp'.ends :
                LET e == lastOp'.ends[k]
                IN  /\ e.end # 0
                    /\ e.kind = "full" =>
                          /\ \A c \in Cells : e.state.board[c] # 0
                          /\ oneSideTest(e.state, TRUE) # oneSideTest(e.state, FALSE)
          /\ tree'[lastOp'.node].nVisits = tree[lastOp'.node].nVisits + Len(lastOp'.ends)
      ]_vars

\* A playout on such a board in which a call of branchingRollout played two
\* moves or more and filled the board.
C18_Witness ==
    /\ lastOp.op = "playout" /\ legal
    /\ \E k \in DOMAIN lastOp.ends :
          lastOp.ends[k].kind = "full" /\ lastOp.ends[k].counter >= 2

\* No rollout takes the greatest element of an empty vector.
NoEmptyMaxElement == lastOp.op = "playout" => ~lastOp.ub

\* --------------------------------------- SpecTree: expand, update_from_root
\* The variables of the controller that the node operations leave alone.
atRest == <<state, boardVars, recVars, ctlVars>>

\* The keys of the children SpecTree gives a node.
key1 == <<0, 0>>
key2 == <<0, 1>>

\* The vector handed to expand: two actions.
ExpandInputs ==
    {<<[action |-> key1, probability |-> Scale], [action |-> key2, probability |-> 2 * Scale]>>}

\* The results handed to update_from_root: 16 / 1 and -16 / 3.
Results == {16 * Scale, 0 - RoundDiv(16 * Scale, 3)}

\* node->expand(apList) on the node at p.
TExpand(p, apList) ==
    /\ p \in DOMAIN tree
    /\ Len(p) < MaxDepth
    /\ isLeaf(tree, p)
    /\ tree' = expand(tree, p, apList)
    /\ lastOp' = [op |-> "expand", node |-> p]
    /\ UNCHANGED atRest

\* node->update_from_root(result) on the node at p.
TUpdateFromRoot(p, result) ==
    /\ p \in DOMAIN tree
    /\ tree[<<>>].nVisits < MaxUpdates
    /\ tree' = update_from_root(tree, p, result)
    /\ lastOp' = [op |-> "update_from_root", node |-> p, result |-> result,
                  calls |-> updateCalls(tree, p, result)]
    /\ UNCHANGED atRest

NextTree ==
    \/ \E p \in DOMAIN tree, apList \in ExpandInputs : TExpand(p, apList)
    \/ \E p \in DOMAIN tree, result \in Results : TUpdateFromRoot(p, result)

SpecTree == InitMcts /\ [][NextTree]_vars

\* The ancestor k levels above the node at p.
Ancestor(p, k) == SubSeq(p, 1, Len(p) - k)

\* v is (-1)^k * 0.95^k * r, to within the k roundings of its k products.
IsDiscounted(v, k, r) ==
    LET d == (20 ^ k) * v - ((0 - 19) ^ k) * r
    IN  2 * (IF d < 0 THEN 0 - d ELSE d) <= k * (20 ^ k)

\* C7: update_from_root(r) on a node D levels below the root adds one to the
\* visits of the node and of each of its D ancestors, the ancestor k levels
\* above the node records (-1)^k * 0.95^k * r and the node records r, and no
\* other node is changed.
C7_UpdateFromRoot ==
    [][lastOp'.op = "update_from_root" =>
        LET p == lastOp'.node
            r == lastOp'.result
            calls == lastOp'.calls
        IN  /\ DOMAIN tree' = DOMAIN tree
            /\ Len(calls) = Len(p) + 1
            /\ \A k \in 0 .. Len(p) :
                  LET call == calls[Len(p) + 1 - k]
                  IN  /\ call.node = Ancestor(p, k)
                      /\ IsDiscounted(call.result, k, r)
                      /\ k = 0 => call.result = r
                      /\ tree'[call.node].nVisits = tree[call.node].nVisits + 1
                      /\ tree'[call.node] = update(tree[call.node], call.result)
            /\ \A q \in DOMAIN tree :
                  (\A k \in 0 .. Len(p) : q # Ancestor(p, k)) => tree'[q] = tree[q]
      ]_vars

\* update_from_root has just run on a node two levels below the root, in a
\* tree with nodes off its path, and not for the first time.
C7_Witness ==
    /\ lastOp.op = "update_from_root"
    /\ Len(lastOp.node) >= 2
    /\ lastOp.calls[1].result # 0
    /\ tree[<<>>].nVisits >= 2
    /\ \E q \in DOMAIN tree : Len(q) = 1 /\ q # Ancestor(lastOp.node, Len(lastOp.node) - 1)

\* ----------------------------------------------- SpecEval: evaluation
\* The child the evaluations of SpecEval are about.
probe == <<key1>>

\* A root whose expand has given it the child probe with the weight h.
InitEval ==
    /\ state = NewGameState
    /\ ret = TRUE
    /\ nCalls = 0
    /\ clean = TRUE
    /\ InitRecover
    /\ pc = "idle"
    /\ timeLim = 0
    /\ batchI = 0
    /\ rolloutCounter = 0
    /\ playouts = 0
    /\ commits = 0
    /\ legal = TRUE
    /\ lastOp = [op |-> "none"]
    /\ \E h \in {Scale, 2 * Scale, 6 * Scale} :
          tree = expand(freshRoot(FALSE), <<>>, <<[action |-> key1, probability |-> h]>>)

\* probe->update_from_root(result): the rollout of a playout through probe.
EUpdateChild(result) ==
    /\ tree[<<>>].nVisits < MaxProbe
    /\ tree' = update_from_root(tree, probe, result)
    /\ lastOp' = [op |-> "update_from_root"]
    /\ UNCHANGED atRest

\* root->update(result): the rollout of a playout that did not go through
\* probe.
EUpdateParent(result) ==
    /\ tree[<<>>].nVisits < MaxProbe
    /\ tree' = [tree EXCEPT ![<<>>] = update(tree[<<>>], result)]
    /\ lastOp' = [op |-> "update"]
    /\ UNCHANGED atRest

\* probe->evaluation(_xplorCoeff), which stores _uct.
EEvaluation ==
    /\ tree' = [tree EXCEPT ![probe].uct = evaluation(tree, probe, xplorCoeff).uct]
    /\ lastOp' = [op |-> "evaluation", value |-> evaluation(tree, probe, xplorCoeff).value]
    /\ UNCHANGED atRest

NextEval ==
    \/ \E result \in Results : EUpdateChild(result)
    \/ \E result \in Results : EUpdateParent(result)
    \/ EEvaluation

SpecEval == InitEval /\ [][NextEval]_vars

\* What evaluation returns for probe once its quality is dq more and it has
\* dn more visits.
probeValue(dq, dn) ==
    evaluation([tree EXCEPT ![probe].quality = tree[probe].quality + dq,
                            ![probe].nVisits = tree[probe].nVisits + dn],
               probe, xplorCoeff).value

\* The changes of quality and of visits the claims compare.
MoreQuality == {1, Scale \div 2, 16 * Scale}
MoreVisits == 1 .. MaxProbe

\* C10 as stated: with a parent visited once or more, evaluation does not go
\* down when the quality goes up and goes strictly down when the node's own
\* visits go up.
C10_StrictlyDecreasing ==
    tree[<<>>].nVisits >= 1 =>
        /\ \A dq \in MoreQuality : probeValue(dq, 0) >= probeValue(0, 0)
        /\ \A dn \in MoreVisits : probeValue(0, dn) < probeValue(0, 0)

\* C10 as amended: with a parent visited once or more, evaluation does not go
\* down when the quality goes up and does not go up when the node's own
\* visits go up; it goes strictly down with a parent visited twice or more
\* (the drop of the exploration term is above the resolution of the floats
\* for the visit counts compared), and with a parent visited once it is the
\* quality whatever the visits.
C10_DecreasingFromTwo ==
    tree[<<>>].nVisits >= 1 =>
        /\ \A dq \in MoreQuality : probeValue(dq, 0) >= probeValue(0, 0)
        /\ \A dn \in MoreVisits :
              /\ probeValue(0, dn) <= probeValue(0, 0)
              /\ tree[<<>>].nVisits >= 2 => probeValue(0, dn) < probeValue(0, 0)
              /\ tree[<<>>].nVisits = 1 => probeValue(0, dn) = tree[probe].quality

\* evaluation has just run on a child visited twice, of quality other than 0,
\* whose parent was visited three times.
C10_Witness ==
    /\ lastOp.op = "evaluation"
    /\ tree[<<>>].nVisits >= 3
    /\ tree[probe].nVisits >= 2
    /\ tree[probe].quality # 0
    /\ tree[probe].uct > 0

\* ------------------------------------------------- SpecBoard: plays alone
InitBoard ==
    /\ state = NewGameState
    /\ ret = TRUE
    /\ nCalls = 0
    /\ clean = TRUE
    /\ InitRecover
    /\ InitCtl

\* One call g.plays(a) on the GameState.
Plays(a) ==
    /\ nCalls < MaxCalls
    /\ LET r == plays(state, a)
       IN  state' = r.st /\ ret' = r.ok
    /\ nCalls' = nCalls + 1
    /\ clean' = (clean /\ InGrid(a) /\ state.board[a] = 0)
    /\ lastOp' = [op |-> "plays", inGrid |-> InGrid(a)]
    /\ UNCHANGED <<recVars, tree, ctlVars>>

\* One call g.plays(k) with an int action.
PlaysInt(k) ==
    /\ nCalls < MaxCalls
    /\ LET r == playsInt(state, k)
       IN  state' = r.st /\ ret' = r.ok
    /\ nCalls' = nCalls + 1
    /\ clean' = (clean /\ k >= 0 /\ k < BoardSize * BoardSize
                       /\ state.board[<<k \div BoardSize, k % BoardSize>>] = 0)
    /\ lastOp' = [op |-> "plays", inGrid |-> k >= 0 /\ k < BoardSize * BoardSize]
    /\ UNCHANGED <<recVars, tree, ctlVars>>

NextBoard ==
    \/ \E a \in Actions : Plays(a)
    \/ \E k \in {0 - 1, BoardSize * BoardSize} : PlaysInt(k)

SpecBoard == InitBoard /\ [][NextBoard]_vars

\* ------------------------------------------------------- claims on plays
Stones(b, isRed) == {c \in Cells : b[c] = (IF isRed THEN 1 ELSE 0 - 1)}

\* Hex adjacency as the six offsets (r,c-1) (r,c+1) (r-1,c) (r-1,c+1) (r+1,c) (r+1,c-1).
HexAdjacent(c, d) ==
    <<d[1] - c[1], d[2] - c[2]>> \in
        {<<0, 0 - 1>>, <<0, 1>>, <<0 - 1, 0>>, <<0 - 1, 1>>, <<1, 0>>, <<1, 0 - 1>>}

RECURSIVE Grow(_, _)
Grow(reached, stones) ==
    LET more == reached \cup {d \in stones : \E c \in reached : HexAdjacent(c, d)}
    IN  IF more = reached THEN reached ELSE Grow(more, stones)

\* A chain of the side's stones joins its starting edge to its opposite edge.
HasChain(b, isRed) ==
    LET stones == Stones(b, isRed)
        start == {c \in stones : IF isRed THEN c[1] = 0 ELSE c[2] = 0}
        goal == {c \in stones : IF isRed THEN c[1] = BoardSize - 1 ELSE c[2] = BoardSize - 1}
    IN  start # {} /\ goal # {} /\ Grow(start, stones) \cap goal # {}

Without(s, c) == [s EXCEPT !.board[c] = 0]

\* C1: for each side, oneSideTest is true exactly when a hex-adjacent chain of
\* that side's stones joins its starting edge (row 0 for red, column 0 for
\* black) to its opposite edge; this holds of the board and, when the side has
\* won, of the board with any one of its stones taken off, so taking a stone
\* off the only chain makes the test false.
C1_OneSideTestIsChain ==
    \A isRed \in BOOLEAN :
        LET won == oneSideTest(state, isRed)
        IN  /\ won <=> HasChain(state.board, isRed)
            /\ won =>
                  \A c \in Stones(state.board, isRed) :
                      oneSideTest(Without(state, c), isRed)
                          <=> HasChain(Without(state, c).board, isRed)

\* A bent winning chain of red (no column holds a stone in every row) that
\* breaks when one of its stones is taken off.
C1_Witness ==
    /\ oneSideTest(state, TRUE)
    /\ \A y \in Coord : \E x \in Coord : state.board[<<x, y>>] # 1
    /\ \E c \in Stones(state.board, TRUE) : ~oneSideTest(Without(state, c), TRUE)

\* C4: after N calls of plays, all in range and on distinct cells, the piece
\* count is N, red is to move exactly when N is even, and the marks written
\* are red's for the odd calls and black's for the even ones.
C4_CountAndTurn ==
    clean =>
        /\ state.totalPieces = nCalls
        /\ redPlaysNext(state) <=> (nCalls % 2 = 0)
        /\ Cardinality(Stones(state.board, TRUE)) = (nCalls + 1) \div 2
        /\ Cardinality(Stones(state.board, FALSE)) = nCalls \div 2

C4_Witness == clean /\ nCalls >= 4 /\ ~redPlaysNext(state)

\* C5: a call of plays with a row or column outside the grid returns false
\* and leaves the grid, the piece count and the side to move unchanged.
C5_OutOfRangeRejected ==
    [][(lastOp'.op = "plays" /\ ~lastOp'.inGrid)
          => (state' = state /\ ret' = FALSE)]_vars

C5_Witness ==
    /\ lastOp.op = "plays" /\ ~lastOp.inGrid
    /\ ret = FALSE /\ state.totalPieces >= 2 /\ nCalls > state.totalPieces

\* --------------------------------------------- SpecRecover: recoverState
\* Moves a history may hold: corners, their neighbours and out-of-range pairs.
RecoverMoves ==
    {<<0 - 1, 0 - 1>>, <<0, 0>>, <<0, 1>>, <<BoardSize - 1, BoardSize - 1>>,
     <<BoardSize - 1, BoardSize - 2>>, <<BoardSize, 0>>}

\* requests[0], responses[0], ..., requests[turnID]: 2 * turnID + 1 moves.
Histories ==
    UNION {[1 .. (2 * t + 1) -> RecoverMoves] : t \in 0 .. MaxTurns}

\* A faulty variant of replayMove: a rejected move ends the replay.
replayMove_checked(s, mv) ==
    [st |-> plays(s, mv).st, ok |-> plays(s, mv).ok, stop |-> ~plays(s, mv).ok]

\* One "plays({x, y});" statement of recoverState: the result of plays is dropped.
replayMove(s, mv) ==
    [st |-> plays(s, mv).st, ok |-> plays(s, mv).ok, stop |-> FALSE]

InitRecoverState ==
    /\ state = NewGameState
    /\ ret = TRUE
    /\ nCalls = 0
    /\ clean = TRUE
    /\ history \in Histories
    /\ hidx = 0
    /\ applied = <<>>
    /\ rpc = "replay"
    /\ InitCtl

Replay ==
    /\ rpc = "replay"
    /\ hidx < Len(history)
    /\ LET r == replayMove(state, history[hidx + 1])
       IN  /\ state' = r.st
           /\ applied' = Append(applied, r.ok)
           /\ hidx' = hidx + 1
           /\ rpc' = IF r.stop THEN "fatal"
                     ELSE IF hidx + 1 = Len(history) THEN "returned"
                     ELSE "replay"
    /\ UNCHANGED <<boardVars, history, tree, ctlVars, lastOp>>

NextRecover == Replay

SpecRecover == InitRecoverState /\ [][NextRecover]_vars

Accepted(upto) == {i \in 1 .. upto : applied[i]}

\* C8 as claimed: a replayed move that plays rejects ends the recovery (no
\* later move is replayed and recoverState does not return normally).
C8_RejectedMoveIsFatal ==
    \A i \in 1 .. Len(applied) :
        ~applied[i] => (hidx = i /\ rpc # "returned")

\* C8 as amended: the moves are replayed in order; a move plays rejects
\* changes nothing and the moves after it are still replayed, so the board is
\* the one built by the accepted moves alone and recoverState returns once
\* every move was replayed.
C8_RejectedMoveIsSkipped ==
    /\ Len(applied) = hidx
    /\ rpc \in {"replay", "returned"}
    /\ (rpc = "returned") <=> (hidx = Len(history))
    /\ \A i \in 1 .. hidx : applied[i] <=> InGrid(history[i])
    /\ state.totalPieces = Cardinality(Accepted(hidx))
    /\ \A i \in Accepted(hidx) :
          (\A j \in Accepted(hidx) : j > i => history[j] # history[i])
              => state.board[history[i]] =
                    (IF Cardinality(Accepted(i - 1)) % 2 = 0 THEN 1 ELSE 0 - 1)
    /\ \A c \in Cells :
          (\A i \in Accepted(hidx) : history[i] # c) => state.board[c] = 0

\* A rejected move followed by an accepted one, and a normal return.
C8_Witness ==
    /\ rpc = "returned"
    /\ \E i \in 1 .. hidx : \E j \in 1 .. hidx : i < j /\ ~applied[i] /\ applied[j]
    /\ state.totalPieces >= 1

\* ------------------------------------------------- SpecUpdate: update alone
\* The results handed to update: the rewards of a rollout that ends at
\* counter 0, 2 or 5 for either side, a draw, and one unit either way.
UpdateResults ==
    {0, 1, 0 - 1} \cup
    {sign * RoundDiv(16 * Scale, counter + 1) : sign \in {1, 0 - 1}, counter \in {0, 2, 5}}

\* node->update(result) on a node made by MCTSNode::MCTSNode; run counts the
\* calls so far when each of them had this result, and is 0 otherwise.
UUpdate(result) ==
    /\ tree[<<>>].nVisits < MaxSame
    /\ tree' = [tree EXCEPT ![<<>>] = update(tree[<<>>], result)]
    /\ lastOp' = [op |-> "update", result |-> result,
                  run |-> IF lastOp.op = "none" THEN 1
                          ELSE IF lastOp.run > 0 /\ lastOp.result = result
                          THEN lastOp.run + 1
                          ELSE 0]
    /\ UNCHANGED atRest

NextUpdate == \E result \in UpdateResults : UUpdate(result)

SpecUpdate == InitMcts /\ [][NextUpdate]_vars

\* C11: after K >= 1 calls of update on a new node, all with the result r,
\* the node has K visits and the quality r.
C11_SameResultKept ==
    (lastOp.op = "update" /\ lastOp.run >= 1) =>
        /\ tree[<<>>].nVisits = lastOp.run
        /\ tree[<<>>].quality = lastOp.result

\* Three calls or more with one result that is neither 0 nor a whole number
\* of units of 16.
C11_Witness ==
    /\ lastOp.op = "update" /\ lastOp.run >= 3
    /\ lastOp.result = 0 - RoundDiv(16 * Scale, 3)

\* ------------------------------------- SpecOverwrite: plays on taken cells
\* The cells of row 0, which a caller goes on playing on.
OverwriteCells == {c \in Cells : c[1] = 0}

\* Calls of plays explored by SpecOverwrite: two more than the board has
\* cells.
OverwriteCalls == BoardSize * BoardSize + 2

\* One call g.plays(a) on a cell of row 0, empty or not.
OPlays(a) ==
    /\ nCalls < OverwriteCalls
    /\ LET r == plays(state, a)
       IN  state' = r.st /\ ret' = r.ok
    /\ nCalls' = nCalls + 1
    /\ clean' = (clean /\ InGrid(a) /\ state.board[a] = 0)
    /\ lastOp' = [op |-> "plays", inGrid |-> InGrid(a)]
    /\ UNCHANGED <<recVars, tree, ctlVars>>

NextOverwrite == \E a \in OverwriteCells : OPlays(a)

SpecOverwrite == InitBoard /\ [][NextOverwrite]_vars

\* C13: in every GameState reached by calls of plays, on empty cells or not,
\* totalPieces is between 0 and the number of cells of the board.
C13_CountWithinBoard ==
    state.totalPieces >= 0 /\ state.totalPieces <= BoardSize * BoardSize

\* --------------------------------------------- claims on outputActionPrior
\* The stones of a side in the 3 x 3 block centred on the cell itself,
\* clipped to the grid.
OwnBlockCount(s, action, mark) ==
    Cardinality({c \in Cells : /\ c[1] >= action[1] - 1 /\ c[1] <= action[1] + 1
                               /\ c[2] >= action[2] - 1 /\ c[2] <= action[2] + 1
                               /\ s.board[c] = mark})

\* The weight the claim gives a candidate: 1.0, twice that if both sides
\* have a stone in the block and one has two, twice again for four stones
\* or more, and half as much again in the central sub-board.
OwnBlockWeight(s, action) ==
    LET red == OwnBlockCount(s, action, 1)
        black == OwnBlockCount(s, action, 0 - 1)
        w1 == IF red >= 1 /\ black >= 1 /\ (red >= 2 \/ black >= 2) THEN 2 * Scale ELSE Scale
        w2 == IF red + black >= 4 THEN 2 * w1 ELSE w1
    IN  IF /\ action[1] >= 2 /\ action[1] <= BoardSize - 2
           /\ action[2] >= 2 /\ action[2] <= BoardSize - 2
        THEN (3 * w2) \div 2
        ELSE w2

\* C15: the weight of every candidate of outputActionPrior is the one
\* computed from the 3 x 3 block centred on the candidate itself.
C15_WeightFromOwnBlock ==
    LET aps == outputActionPrior(state, TRUE, defaultForcedPlay)
    IN  \A k \in DOMAIN aps : aps[k].probability = OwnBlockWeight(state, aps[k].action)

\* ------------------------------ SpecCommit: commits on cells already taken
\* The two cells a caller goes on handing to updateWithMove.
CommitCells == {<<0, 0>>, <<0, 1>>}

\* MCTS::updateWithMove(action) on one of the two cells, taken or not.
CUpdateWithMove(action) ==
    /\ pc = "idle"
    /\ commits < OverwriteCalls
    /\ Committed(action)

NextCommit ==
    \/ \E a \in CommitCells : CUpdateWithMove(a)
    \/ \E m \in Multipliers : GetNextMoveBegin(m)
    \/ Playout
    \/ \E tp \in Readings : ClockRead(tp)

SpecCommit == InitMcts /\ [][NextCommit]_vars

\* The nodes whose children select evaluates when playout goes down to the
\* node at p: those above p with two children or more (max_element of one
\* element compares nothing).
selectedFrom(t, p) ==
    {SubSeq(p, 1, k) : k \in {j \in 0 .. Len(p) - 1 :
                                  Cardinality(getChildren(t, SubSeq(p, 1, j))) >= 2}}

\* C17: every node whose children a playout evaluates in select has been
\* visited once or more.
C17_ParentVisited ==
    [][lastOp'.op = "playout" =>
          \A q \in selectedFrom(tree, lastOp'.node) : tree[q].nVisits >= 1]_vars

\* The node above the node at path p.
above(p) == SubSeq(p, 1, Len(p) - 1)

\* The original statement of C20: the flag of the root is true exactly when
\* red is the side to move on _state.
C20_FlagIsSideToMove ==
    tree[<<>>].isRed = redPlaysNext(state)

\* C20: the flag of the root is true exactly when red made the last move on
\* _state (false on the empty board), after construction, setState and
\* every updateWithMove and all through getNextMove; every other node
\* carries the opposite flag of its parent, so the flag of a node names the
\* side that made the move leading to it.
C20_FlagIsLastMover ==
    /\ tree[<<>>].isRed = redPlayedLast(state)
    /\ \A p \in DOMAIN tree :
          /\ Len(p) >= 1 => tree[p].isRed = ~tree[above(p)].isRed
          /\ tree[p].isRed = ((state.totalPieces + Len(p)) % 2 = 1)

\* updateWithMove has made a child that has children of its own the root.
C20_Witness ==
    /\ lastOp.op = "updateWithMove" /\ lastOp.kept
    /\ \E p \in DOMAIN tree : Len(p) >= 1
    /\ state.totalPieces >= 2

\* ------------------------------------- SpecPrior: the first plies of a game
\* Calls of plays explored by SpecPrior.
PriorCalls == MaxProbe - 1

\* One call g.plays(a) among the first calls on a new GameState.
PPlays(a) ==
    /\ nCalls < PriorCalls
    /\ LET r == plays(state, a)
       IN  state' = r.st /\ ret' = r.ok
    /\ nCalls' = nCalls + 1
    /\ clean' = (clean /\ InGrid(a) /\ state.board[a] = 0)
    /\ lastOp' = [op |-> "plays", inGrid |-> InGrid(a)]
    /\ UNCHANGED <<recVars, tree, ctlVars>>

NextPrior == \E a \in Actions : PPlays(a)

SpecPrior == InitBoard /\ [][NextPrior]_vars

\* The forced openings handed to outputActionPrior: the default, and a cell
\* on the border.
ForcedPlays == {defaultForcedPlay, <<0, 0>>}

\* The actions of a vector of ActionPrior, in order.
actionsOf(aps) == [k \in DOMAIN aps |-> aps[k].action]

ExpandLists ==
    {<<>>,
     <<[action |-> key1, probability |-> Scale]>>,
     <<[action |-> key1, probability |-> Scale], [action |-> key2, probability |-> 2 * Scale]>>,
     <<[action |-> key2, probability |-> 3 * Scale], [action |-> key2, probability |-> Scale]>>}

\* Nodes a tree of SpecExpand may hold.
ExpandNodes == MaxDepth + 3

\* node->expand(apList) on the node at p, leaf or not.
XExpand(p, apList) ==
    /\ p \in DOMAIN tree
    /\ Len(p) < MaxDepth
    /\ Cardinality(DOMAIN tree) + Len(apList) <= ExpandNodes
    /\ tree' = expand(tree, p, apList)
    /\ lastOp' = [op |-> "expand", node |-> p, apPairs |-> apList,
                  had |-> getChildren(tree, p)]
    /\ UNCHANGED atRest

NextExpand ==
    \/ \E p \in DOMAIN tree, apList \in ExpandLists : XExpand(p, apList)
    \/ \E p \in DOMAIN tree : TUpdateFromRoot(p, 16 * Scale)

SpecExpand == InitMcts /\ [][NextExpand]_vars

\* C21: a call of expand leaves every node the tree held as it was, adds
\* one child for each action of the list that was not a child, with no
\* visits, no quality, this node as parent and a weight the list gives the
\* action, and nothing else; a second call with the same list changes
\* nothing.
C21_ExpandAddsOnly ==
    [][lastOp'.op = "expand" =>
          LET p == lastOp'.node
              apPairs == lastOp'.apPairs
              listed == {apPairs[k].action : k \in DOMAIN apPairs}
          IN  /\ \A q \in DOMAIN tree : q \in DOMAIN tree' /\ tree'[q] = tree[q]
              /\ DOMAIN tree' \ DOMAIN tree =
                     {Append(p, a) : a \in listed \ lastOp'.had}
              /\ \A q \in DOMAIN tree' \ DOMAIN tree :
                    /\ tree'[q].nVisits = 0
                    /\ tree'[q].quality = 0
                    /\ tree'[q].parent = PtrTo(p)
                    /\ \E k \in DOMAIN apPairs :
                          /\ apPairs[k].action = q[Len(q)]
                          /\ apPairs[k].probability = tree'[q].heuristicFactor
                    /\ Cardinality({k \in DOMAIN apPairs : apPairs[k].action = q[Len(q)]}) = 1
                          => tree'[q].heuristicFactor = PriorFor(apPairs, q[Len(q)], TRUE)
              /\ expand(tree', p, apPairs) = tree'
      ]_vars

\* expand has added a child to a node that had a visited child with children
\* of its own.
C21_Witness ==
    /\ lastOp.op = "expand"
    /\ lastOp.had # {}
    /\ getChildren(tree, lastOp.node) # lastOp.had
    /\ \E a \in lastOp.had :
          /\ tree[Append(lastOp.node, a)].nVisits >= 1
          /\ ~isLeaf(tree, Append(lastOp.node, a))

\* ------------------------------------------------- claims on the rollout
\* The turns at which the loop of branchingRollout calls checkTermination:
\* counter up to DenseWindow, and the multiples of 2 ^ TermBits but 0.
checkTurn(counter) ==
    counter <= DenseWindow \/ (counter # 0 /\ counter % (2 ^ TermBits) = 0)

\* The result a return hands update_from_root, in units of 1 / Scale:
\* end * sign * 16 / (counter + 1) for a result of the first window and
\* end * sign * 0.995 ^ counter for the others.  With byTurn the first
\* window is told by the counter alone, without it by the check that found
\* the result.
resultOf(e, isRed, byTurn) ==
    LET sign == IF isRed THEN 1 ELSE 0 - 1
        first == IF byTurn THEN e.counter <= DenseWindow ELSE e.kind = "early"
    IN  IF first
        THEN e.end * sign * RoundDiv(16 * Scale, e.counter + 1)
        ELSE e.end * sign * pow995(e.counter)

\* The node after the results of the returns ends[k], ends[k + 1], ... have
\* been recorded in it, one call of update each.
RECURSIVE resultsApplied(_, _, _, _)
resultsApplied(node, ends, k, byTurn) ==
    IF k > Len(ends) THEN node
    ELSE resultsApplied(IF ends[k].end = 0 THEN node
                        ELSE update(node, resultOf(ends[k], node.isRed, byTurn)),
                        ends, k + 1, byTurn)

\* The original statement of C22: the result of a return is scaled by the
\* window its turn falls in, 16 / (counter + 1) up to DenseWindow and
\* 0.995 ^ counter after.
C22_ResultByWindow ==
    [][lastOp'.op = "playout" =>
          LET after == resultsApplied(tree[lastOp'.node], lastOp'.ends, 1, TRUE)
          IN  /\ tree'[lastOp'.node].nVisits = after.nVisits
              /\ tree'[lastOp'.node].quality = after.quality
      ]_vars

\* C22: a call of branchingRollout goes past a turn whose counter is at most
\* DenseWindow, or a multiple of 2 ^ TermBits other than 0, only when
\* neither side has won there; it returns with a result only at such
\* a turn or on a full board; the result found by the check of the first
\* window is end * sign * 16 / (counter + 1), and the result found by the
\* later check or by the final check on a full board, whatever the
\* counter, is end * sign * 0.995 ^ counter.
C22_ChecksAndResults ==
    [][lastOp'.op = "playout" =>
          LET ends == lastOp'.ends
              turns == lastOp'.turns
              after == resultsApplied(tree[lastOp'.node], ends, 1, FALSE)
          IN  /\ \A k \in DOMAIN turns :
                    /\ ~boardIsFull(turns[k].state)
                    /\ checkTurn(turns[k].counter) => checkTermination(turns[k].state) = 0
              /\ \A k \in DOMAIN ends :
                    LET e == ends[k]
                    IN  /\ e.kind \in {"early", "late", "full", "ub"}
                        /\ e.kind = "early" =>
                              e.counter <= DenseWindow /\ e.end # 0 /\ ~boardIsFull(e.state)
                        /\ e.kind = "late" =>
                              /\ e.counter > DenseWindow
                              /\ e.counter % (2 ^ TermBits) = 0
                              /\ e.end # 0 /\ ~boardIsFull(e.state)
                        /\ e.kind = "full" => boardIsFull(e.state)
              /\ tree'[lastOp'.node].nVisits = after.nVisits
              /\ tree'[lastOp'.node].quality = after.quality
      ]_vars

\* A playout in which a call went past a turn where a side had won and no
\* check was due, and returned with a result at a later check.
C22_Witness ==
    /\ lastOp.op = "playout"
    /\ \E k \in DOMAIN lastOp.turns :
          /\ ~checkTurn(lastOp.turns[k].counter)
          /\ checkTermination(lastOp.turns[k].state) # 0
          /\ \E j \in DOMAIN lastOp.ends :
                /\ lastOp.ends[j].line = lastOp.turns[k].line
                /\ lastOp.ends[j].kind = "late"
                /\ lastOp.ends[j].counter > lastOp.turns[k].counter

\* C23, as stated: no call of branchingRollout takes the greatest element
\* of an empty vector, and a turn of its loop is played only while the piece
\* count is below the number of cells, so that a call started at piece count
\* p plays at most BoardSize * BoardSize - p moves and returns.
C23_LinesEndWithinBoard ==
    [][lastOp'.op = "playout" =>
          /\ ~lastOp'.ub
          /\ \A k \in DOMAIN lastOp'.ends : lastOp'.ends[k].kind # "ub"
          /\ \A k \in DOMAIN lastOp'.turns :
                lastOp'.turns[k].state.totalPieces < BoardSize * BoardSize
      ]_vars

\* The part of a vector of n candidates the claim has the rollout search,
\* as <<first, last>>: the whole of it, its first half, or its second half.
searched(n, search_indicator) ==
    IF search_indicator = 0 THEN <<1, n>>
    ELSE IF search_indicator = 1 /\ n > 1 THEN <<1, n \div 2>>
    ELSE <<n \div 2 + 1, n>>

\* The states in which a rollout of the playout called outputActionPrior
\* to choose a move: those of the turns it played, and those where it took
\* the greatest element of an empty vector.
choiceStates(op) ==
    {op.turns[k].state : k \in DOMAIN op.turns}
        \cup {op.ends[k].state : k \in {j \in DOMAIN op.ends : op.ends[j].kind = "ub"}}

\* The choice k made in the vector aps in state s lies in part, which is
\* not empty and is the whole vector when there is one candidate, and the
\* action chosen is an empty cell.
choiceInPart(aps, s, k, part) ==
    /\ part[1] <= part[2]
    /\ Len(aps) = 1 => part = <<1, 1>>
    /\ k >= part[1] /\ k <= part[2]
    /\ InGrid(aps[k].action)
    /\ s.board[aps[k].action] = 0

\* There is a candidate in aps, and the choice is as it should be for every
\* search_indicator.
choiceExists(aps, s) ==
    /\ Len(aps) >= 1
    /\ \A si \in 0 .. 2 :
          choiceInPart(aps, s, rolloutChoice(aps, si), searched(Len(aps), si))

\* C24: on the board of the source the cells inside the margin outnumber
\* the pieces whenever fewer than all cells are counted; and whenever a
\* rollout chooses a move at a piece count below the number of cells, on a
\* board built by in-range moves onto empty or taken cells,
\* outputActionPrior returns a candidate or more, the part searched is not
\* empty for any search_indicator and is the whole vector when there is one
\* candidate, and the action chosen is in that part and is an empty cell.
C24_ChoiceExists ==
    /\ \A n \in 0 .. SourceSide * SourceSide - 1 :
          (SourceSide - 2 * borderRangeOn(n, SourceSide))
              * (SourceSide - 2 * borderRangeOn(n, SourceSide)) > n
    /\ [][lastOp'.op = "playout" =>
            \A s \in choiceStates(lastOp') :
                s.totalPieces < BoardSize * BoardSize =>
                    choiceExists(outputActionPrior(s, TRUE, defaultForcedPlay), s)
        ]_vars

\* A playout after moves committed onto taken cells, in which a rollout
\* chose among two candidates or more, and chose the only candidate left.
C24_Witness ==
    /\ lastOp.op = "playout"
    /\ ~legal
    /\ \E s \in choiceStates(lastOp) :
          /\ s.totalPieces < BoardSize * BoardSize
          /\ Len(outputActionPrior(s, TRUE, defaultForcedPlay)) = 1
    /\ \E s \in choiceStates(lastOp) :
          /\ s.totalPieces < BoardSize * BoardSize
          /\ Len(outputActionPrior(s, TRUE, defaultForcedPlay)) >= 2

\* The sum of _nVisits over the children of the node at p reached by the
\* actions in kids.
RECURSIVE visitsUnder(_, _, _)
visitsUnder(t, p, kids) ==
    IF kids = {} THEN 0
    ELSE LET a == CHOOSE x \in kids : TRUE
         IN  t[Append(p, a)].nVisits + visitsUnder(t, p, kids \ {a})

\* C25: in every tree the controller holds, after playouts and after
\* updateWithMove has made a child the root, the visits of a node are at
\* least the visits of its children together.
C25_VisitsCoverChildren ==
    \A p \in DOMAIN tree :
        tree[p].nVisits >= visitsUnder(tree, p, getChildren(tree, p))

\* A playout has run under a root that updateWithMove took from the
\* children of the old root, and has left that root a visited child.
C25_Witness ==
    /\ lastOp.op = "playout"
    /\ commits >= 1
    /\ tree[<<>>].nVisits >= 2
    /\ \E a \in getChildren(tree, <<>>) : tree[<<a>>].nVisits >= 1

\* C26: updateWithMove with an action off the board leaves _state as it
\* was, board and piece count, and leaves the controller a tree of one node:
\* a root with no parent, no children, no visits and no quality, whose flag
\* is redPlayedLast() of that board.
C26_OffBoardCommitResetsTree ==
    [][(lastOp'.op = "updateWithMove" /\ ~InGrid(lastOp'.action)) =>
          /\ state' = state
          /\ DOMAIN tree' = {<<>>}
          /\ tree'[<<>>].parent = nullptr
          /\ tree'[<<>>].nVisits = 0
          /\ tree'[<<>>].quality = 0
          /\ tree'[<<>>].isRed = redPlayedLast(state)
      ]_vars

\* updateWithMove was called with an action off the board after two
\* playouts or more had filled the tree, on a board that holds stones.
C26_Witness ==
    /\ lastOp.op = "updateWithMove" /\ ~InGrid(lastOp.action)
    /\ playouts >= 2
    /\ state.totalPieces >= 1
    /\ DOMAIN tree = {<<>>}

=============================================================================
